---- MODULE Spec2Model ----
(***************************************************************************)
(* A model of the fleet-trip spreadsheet processor                         *)
(* (src/src/services/data_processor.py) and of the request handlers that   *)
(* share one DataProcessor instance (src/src/routes, src/src/main.py).     *)
(*                                                                         *)
(* Conventions                                                             *)
(*  - A cell value is a record [t, n, d, s]: t = "num" is the rational     *)
(*    n/d (d > 0, reduced), t = "nan" a missing cell / float NaN,          *)
(*    t = "inf" plus or minus infinity (sign n), t = "str" the text s.     *)
(*    Floating-point rounding is not modelled: arithmetic is exact.        *)
(*  - A column name and a pattern are sequences of one-character strings,  *)
(*    so that lower() and the substring test are computed, not assumed.    *)
(*  - A table is [isNone, cols, rows]; rows are tuples aligned with cols.  *)
(*  - A Python dict keyed by column is a sequence of <<key, value>> pairs  *)
(*    in insertion order; metadata and summary_stats carry the set of      *)
(*    keys present in the field "keys".                                    *)
(***************************************************************************)
EXTENDS Integers, Sequences, FiniteSets, TLC

VARIABLES
    data,           \* DataProcessor.data: the table, or NoTable (None)
    file_path,      \* DataProcessor.file_path, or NoPath (None)
    metadata,       \* DataProcessor.metadata
    column_types,   \* DataProcessor.column_types
    summary_stats,  \* DataProcessor.summary_stats
    loader,         \* the request thread inside load_data: [pc, path]
    lastLoad,       \* what the last load_data call returned: [path, ok, before]
    reader,         \* the request thread inside GET /api/data/summary
    result          \* what the last query operation returned

vars == <<data, file_path, metadata, column_types, summary_stats,
          loader, lastLoad, reader, result>>

procVars == <<data, file_path, metadata, column_types, summary_stats>>

-----------------------------------------------------------------------------
(* Bounds *)

\* Rows per generated table of the scoring specification.
MaxRows == 2

-----------------------------------------------------------------------------
(* Cell values and float arithmetic *)

Abs(x) == IF x < 0 THEN -x ELSE x

RECURSIVE Gcd(_, _)
Gcd(a, b) == IF b = 0 THEN a ELSE Gcd(b, a % b)

Rat(n, d) ==
    LET g == Gcd(Abs(n), Abs(d))
        sgn == IF d < 0 THEN -1 ELSE 1
    IN [t |-> "num", n |-> sgn * (n \div g), d |-> sgn * (d \div g), s |-> ""]

Num(n) == [t |-> "num", n |-> n, d |-> 1, s |-> ""]
NaN == [t |-> "nan", n |-> 0, d |-> 1, s |-> ""]
PosInf == [t |-> "inf", n |-> 1, d |-> 1, s |-> ""]
NegInf == [t |-> "inf", n |-> -1, d |-> 1, s |-> ""]
Str(x) == [t |-> "str", n |-> 0, d |-> 1, s |-> x]

IsNum(v) == v.t = "num"
IsNaN(v) == v.t = "nan"
IsInf(v) == v.t = "inf"
Sign(v) == IF v.n > 0 THEN 1 ELSE IF v.n < 0 THEN -1 ELSE 0
InfOf(sg) == IF sg > 0 THEN PosInf ELSE NegInf

\* IEEE-754 addition on the extended values.
FAdd(a, b) ==
    IF IsNaN(a) \/ IsNaN(b) THEN NaN
    ELSE IF IsInf(a) /\ IsInf(b) THEN (IF a.n = b.n THEN a ELSE NaN)
    ELSE IF IsInf(a) THEN a
    ELSE IF IsInf(b) THEN b
    ELSE Rat(a.n * b.d + b.n * a.d, a.d * b.d)

FNeg(a) ==
    IF IsNaN(a) THEN NaN
    ELSE IF IsInf(a) THEN InfOf(-a.n)
    ELSE Rat(-a.n, a.d)

FSub(a, b) == FAdd(a, FNeg(b))

FMul(a, b) ==
    IF IsNaN(a) \/ IsNaN(b) THEN NaN
    ELSE IF IsInf(a) \/ IsInf(b)
         THEN (IF Sign(a) * Sign(b) = 0 THEN NaN ELSE InfOf(Sign(a) * Sign(b)))
    ELSE Rat(a.n * b.n, a.d * b.d)

\* Division as pandas performs it on a numeric Series: x/0 is +-inf, 0/0 is NaN.
FDiv(a, b) ==
    IF IsNaN(a) \/ IsNaN(b) THEN NaN
    ELSE IF IsInf(a) /\ IsInf(b) THEN NaN
    ELSE IF IsInf(a) THEN (IF Sign(b) < 0 THEN InfOf(-a.n) ELSE a)
    ELSE IF IsInf(b) THEN Num(0)
    ELSE IF b.n = 0 THEN (IF a.n = 0 THEN NaN ELSE InfOf(Sign(a)))
    ELSE Rat(a.n * b.d, a.d * b.n)

\* a < b on non-NaN extended values.
FLess(a, b) ==
    IF IsInf(a) /\ IsInf(b) THEN a.n < b.n
    ELSE IF IsInf(a) THEN a.n < 0
    ELSE IF IsInf(b) THEN b.n > 0
    ELSE a.n * b.d < b.n * a.d

\* The == of a pandas comparison: a missing value equals nothing, itself included.
PdEq(a, b) == ~IsNaN(a) /\ ~IsNaN(b) /\ a = b

-----------------------------------------------------------------------------
(* Sequences *)

RECURSIVE SelectIdx(_, _, _)
\* The indices i in lo..Len(s) with P(i), in increasing order, driven by a
\* set of accepted indices.
SelectIdx(ok, lo, hi) ==
    IF lo > hi THEN << >>
    ELSE IF lo \in ok THEN <<lo>> \o SelectIdx(ok, lo + 1, hi)
    ELSE SelectIdx(ok, lo + 1, hi)

Range(s) == {s[i] : i \in DOMAIN s}

\* The sequence f itself, held as an evaluated tuple.
Tup(f) == f \o << >>

-----------------------------------------------------------------------------
(* Strings as character sequences *)

UpperChars == <<"A","B","C","D","E","F","G","H","I","J","K","L","M",
                "N","O","P","Q","R","S","T","U","V","W","X","Y","Z">>
LowerChars == <<"a","b","c","d","e","f","g","h","i","j","k","l","m",
                "n","o","p","q","r","s","t","u","v","w","x","y","z">>

\* The lower-case letter of each upper-case letter.
LowerOf ==
    [c \in Range(UpperChars) |->
        LowerChars[CHOOSE i \in DOMAIN UpperChars : UpperChars[i] = c]]

\* str.lower() on one character.
LowerChar(c) == IF c \in DOMAIN LowerOf THEN LowerOf[c] ELSE c

\* str.lower()
Lower(s) == Tup([i \in DOMAIN s |-> LowerChar(s[i])])

\* Python's "p in s" on strings.
Contains(p, s) ==
    LET n == Len(p)
    IN \E i \in 1..(Len(s) - n + 1) : \A k \in 1..n : s[i + k - 1] = p[k]

-----------------------------------------------------------------------------
(* Column names of the modelled spreadsheets *)

ColMotorista == <<"M","o","t","o","r","i","s","t","a">>
ColCondutor == <<"C","o","n","d","u","t","o","r">>
ColPlaca == <<"P","l","a","c","a">>
ColDistanciaKM == <<"D","i","s","t","a","n","c","i","a","_","K","M">>
ColTempo == <<"T","e","m","p","o">>
ColConsumo == <<"C","o","n","s","u","m","o">>
ColEventos == <<"E","v","e","n","t","o","s">>
ColCidade == <<"C","i","d","a","d","e">>

(* The pattern lists of calculate_driver_scores *)

DriverPatterns ==
    << <<"m","o","t","o","r","i","s","t","a">>,
       <<"c","o","n","d","u","t","o","r">>,
       <<"d","r","i","v","e","r">> >>

DistPatterns ==
    << <<"d","i","s","t","a","n","c","i","a">>,
       <<"k","m">>,
       <<"q","u","i","l","o","m","e","t","r","a","g","e","m">>,
       <<"d","i","s","t","a","n","c","e">> >>

TimePatterns ==
    << <<"t","e","m","p","o">>,
       <<"d","u","r","a","c","a","o">>,
       <<"d","u","r","a","t","i","o","n">>,
       <<"t","i","m","e">> >>

FuelPatterns ==
    << <<"c","o","n","s","u","m","o">>,
       <<"c","o","m","b","u","s","t","i","v","e","l">>,
       <<"f","u","e","l">>,
       <<"c","o","n","s","u","m","p","t","i","o","n">> >>

EventPatterns ==
    << <<"i","n","f","r","a","c","o","e","s">>,
       <<"e","v","e","n","t","o","s">>,
       <<"v","i","o","l","a","t","i","o","n","s">>,
       <<"e","v","e","n","t","s">> >>

-----------------------------------------------------------------------------
(* Tables *)

\* self.data = None
NoTable == [isNone |-> TRUE, cols |-> << >>, rows |-> << >>]

Table(cols, rows) == [isNone |-> FALSE, cols |-> cols, rows |-> rows]

\* list(self.data.columns).index(col): the position of a column name.
ColIndex(T, col) == CHOOSE j \in DOMAIN T.cols : T.cols[j] = col

\* self.data[col]: the cells of a column, in row order.
Column(T, col) ==
    LET j == ColIndex(T, col) IN Tup([i \in DOMAIN T.rows |-> T.rows[i][j]])

\* The dtype pandas gives a column read from a sheet: int64 when every cell is
\* a whole number, float64 when every cell is a number or missing, object
\* otherwise (text cells, or no rows at all).
Dtype(cells) ==
    IF Len(cells) = 0 THEN "object"
    ELSE IF \E i \in DOMAIN cells : cells[i].t \notin {"num", "nan"} THEN "object"
    ELSE IF \A i \in DOMAIN cells : IsNum(cells[i]) /\ cells[i].d = 1 THEN "int64"
    ELSE "float64"

\* pd.api.types.is_numeric_dtype / select_dtypes(include=[np.number])
IsNumericDtype(dt) == dt \in {"int64", "float64"}

RECURSIVE SumFrom(_, _)
\* Series.sum(): missing cells are skipped, and the sum of nothing is 0.
SumFrom(cells, i) ==
    IF i > Len(cells) THEN Num(0)
    ELSE IF IsNaN(cells[i]) THEN SumFrom(cells, i + 1)
    ELSE FAdd(cells[i], SumFrom(cells, i + 1))

SeriesSum(cells) == SumFrom(cells, 1)

\* Series.count(): the number of cells that are not missing.
SeriesCount(cells) == Cardinality({i \in DOMAIN cells : ~IsNaN(cells[i])})

\* Series.mean(): missing cells are skipped; the mean of nothing is NaN.
SeriesMean(cells) ==
    IF SeriesCount(cells) = 0 THEN NaN
    ELSE FDiv(SeriesSum(cells), Num(SeriesCount(cells)))

\* Series.max(): missing cells are skipped; the maximum of nothing is NaN.
SeriesMax(cells) ==
    LET present == {i \in DOMAIN cells : ~IsNaN(cells[i])}
    IN IF present = {} THEN NaN
       ELSE cells[CHOOSE i \in present :
                     \A k \in present : ~FLess(cells[i], cells[k])]

\* Series.min()
SeriesMin(cells) ==
    LET present == {i \in DOMAIN cells : ~IsNaN(cells[i])}
    IN IF present = {} THEN NaN
       ELSE cells[CHOOSE i \in present :
                     \A k \in present : ~FLess(cells[k], cells[i])]

\* Series.unique(): the distinct cells in order of first appearance; all
\* missing cells count as one value.
RECURSIVE UniqueFrom(_, _, _)
UniqueFrom(cells, i, acc) ==
    IF i > Len(cells) THEN acc
    ELSE IF cells[i] \in Range(acc) THEN UniqueFrom(cells, i + 1, acc)
    ELSE UniqueFrom(cells, i + 1, Append(acc, cells[i]))

\* The column as it is, repeated values kept.
KeepAll(cells) == cells

Unique(cells) == UniqueFrom(cells, 1, << >>)

\* Series.nunique(): the number of distinct cells, missing ones left out.
NUnique(cells) == Cardinality({cells[i] : i \in {k \in DOMAIN cells : ~IsNaN(cells[k])}})

\* Series.head(n)
FirstN(s, n) == SubSeq(s, 1, IF Len(s) < n THEN Len(s) ELSE n)

RECURSIVE SortByCount(_)
\* Stable sort of <<value, count>> pairs by decreasing count.
SortByCount(pairs) ==
    IF pairs = << >> THEN << >>
    ELSE LET best == CHOOSE i \in DOMAIN pairs :
                        /\ \A k \in DOMAIN pairs : pairs[k][2] <= pairs[i][2]
                        /\ \A k \in 1..(i - 1) : pairs[k][2] < pairs[i][2]
             rest == [k \in 1..(Len(pairs) - 1) |->
                        IF k < best THEN pairs[k] ELSE pairs[k + 1]]
         IN <<pairs[best]>> \o SortByCount(rest)

\* Series.value_counts(): the non-missing values with their counts, most
\* frequent first.
ValueCounts(cells) ==
    LET present == SelectIdx({i \in DOMAIN cells : ~IsNaN(cells[i])}, 1, Len(cells))
        vals == Unique([k \in DOMAIN present |-> cells[present[k]]])
    IN SortByCount([k \in DOMAIN vals |->
                      <<vals[k], Cardinality({i \in DOMAIN cells : cells[i] = vals[k]})>>])

-----------------------------------------------------------------------------
(* DataProcessor: metadata and summary statistics *)

\* Columns with this many distinct values or more get no value counts.
CategoricalLimit == 100
\* Value counts keep this many most frequent values.
TopValues == 20

\* self.metadata = {} and self.summary_stats = {} of __init__
EmptyMetadata ==
    [keys |-> {}, num_rows |-> 0, num_columns |-> 0, columns |-> << >>,
     file_name |-> 0, column_types |-> << >>]

EmptySummary ==
    [keys |-> {}, numeric |-> << >>, categorical |-> << >>,
     missing_values |-> << >>]

\* An uploaded file's path, and os.path.basename of it.
Path(k) == <<"uploads", k>>
NoPath == << >>
Basename(p) == p[2]

\* The dict literal of _process_metadata.  memory_usage is a footprint
\* estimate that no modelled operation reads: only its key is kept.
MetadataDict(T, path) ==
    [keys |-> {"num_rows", "num_columns", "columns", "memory_usage", "file_name"},
     num_rows |-> Len(T.rows),
     num_columns |-> Len(T.cols),
     columns |-> T.cols,
     file_name |-> IF path # NoPath THEN Basename(path) ELSE 0,
     column_types |-> << >>]

\* The type _process_metadata records for one column.
TypeName(cells) ==
    IF IsNumericDtype(Dtype(cells))
    THEN (IF Dtype(cells) = "int64" THEN "integer" ELSE "float")
    ELSE "text"

\* The column_types dict built by the loop of _process_metadata.
ColumnTypes(T) ==
    [j \in DOMAIN T.cols |-> <<T.cols[j], TypeName(Column(T, T.cols[j]))>>]

\* self.metadata['column_types'] = self.column_types
AttachTypes(m, ct) ==
    [m EXCEPT !.keys = @ \cup {"column_types"}, !.column_types = ct]

\* One column's entry of DataFrame.describe(); the spread and quantile rows
\* are left out.
Describe(cells) ==
    [count |-> SeriesCount(cells), mean |-> SeriesMean(cells),
     min |-> SeriesMin(cells), max |-> SeriesMax(cells)]

NumericCols(T) ==
    SelectIdx({j \in DOMAIN T.cols : IsNumericDtype(Dtype(Column(T, T.cols[j])))},
              1, Len(T.cols))

\* _calculate_summary_stats, first part: the 'numeric' entry is written only
\* when the table has a numeric column.
SummaryNumeric(stats, T) ==
    LET nc == NumericCols(T)
    IN IF nc # << >>
       THEN [stats EXCEPT
               !.keys = @ \cup {"numeric"},
               !.numeric = [k \in DOMAIN nc |->
                              <<T.cols[nc[k]], Describe(Column(T, T.cols[nc[k]]))>>]]
       ELSE stats

\* Value counts of the non-numeric columns below the limit, kept whole.
SummaryCategoricalUntruncated(stats, T) ==
    LET cc == SelectIdx({j \in DOMAIN T.cols :
                           /\ ~IsNumericDtype(Dtype(Column(T, T.cols[j])))
                           /\ NUnique(Column(T, T.cols[j])) < CategoricalLimit},
                        1, Len(T.cols))
    IN [stats EXCEPT
          !.keys = @ \cup {"categorical"},
          !.categorical = [k \in DOMAIN cc |->
                             <<T.cols[cc[k]], ValueCounts(Column(T, T.cols[cc[k]]))>>]]

\* _calculate_summary_stats, second part: value counts of the non-numeric
\* columns with fewer than CategoricalLimit distinct values.
SummaryCategorical(stats, T) ==
    LET cc == SelectIdx({j \in DOMAIN T.cols :
                           /\ ~IsNumericDtype(Dtype(Column(T, T.cols[j])))
                           /\ NUnique(Column(T, T.cols[j])) < CategoricalLimit},
                        1, Len(T.cols))
    IN [stats EXCEPT
          !.keys = @ \cup {"categorical"},
          !.categorical = [k \in DOMAIN cc |->
                             <<T.cols[cc[k]],
                               FirstN(ValueCounts(Column(T, T.cols[cc[k]])), TopValues)>>]]

\* _calculate_summary_stats, third part: missing cells per column.
SummaryMissing(stats, T) ==
    [stats EXCEPT
       !.keys = @ \cup {"missing_values"},
       !.missing_values = [j \in DOMAIN T.cols |->
                             <<T.cols[j],
                               Cardinality({i \in DOMAIN T.rows : IsNaN(T.rows[i][j])})>>]]

\* _calculate_summary_stats as a whole, on the dict it updates in place.
CalculateSummaryStats(stats, T) ==
    SummaryMissing(SummaryCategorical(SummaryNumeric(stats, T), T), T)

-----------------------------------------------------------------------------
(* The uploaded files of the load specification *)

\* Trips with a numeric distance column.
FileTrips ==
    Table(<<ColMotorista, ColDistanciaKM>>,
          << <<Str("A"), Num(100)>>, <<Str("B"), Num(50)>> >>)

\* A sheet of text columns only.
FileCities ==
    Table(<<ColMotorista, ColCidade>>, << <<Str("A"), Str("X")>> >>)

\* A numeric column with a missing cell.
FileEvents ==
    Table(<<ColPlaca, ColEventos>>,
          << <<Str("P"), Num(1)>>, <<Str("P"), NaN>> >>)

\* A header row and no data rows.
FileHeaderOnly == Table(<<ColMotorista>>, << >>)

\* What pd.read_excel makes of each uploaded file: a table, or an exception
\* (ok = FALSE) for a file that is no workbook.
Files ==
    << [ok |-> TRUE, table |-> FileTrips],
       [ok |-> TRUE, table |-> FileCities],
       [ok |-> TRUE, table |-> FileEvents],
       [ok |-> TRUE, table |-> FileHeaderOnly],
       [ok |-> FALSE, table |-> NoTable] >>

-----------------------------------------------------------------------------
(* load_data, statement by statement: the shared processor has no lock, and *)
(* the server handles each request on a thread of its own.                  *)

LoaderIdle == [pc |-> "idle", path |-> NoPath]

NoLoad ==
    [called |-> FALSE, path |-> NoPath, ok |-> FALSE,
     before |-> <<NoTable, NoPath, EmptyMetadata, << >>, EmptySummary>>]

\* upload_file calls load_data(filepath); self.file_path = file_path
LoadBegin(k) ==
    /\ loader.pc = "idle"
    /\ file_path' = Path(k)
    /\ loader' = [pc |-> "read", path |-> Path(k)]
    /\ lastLoad' = [called |-> FALSE, path |-> Path(k), ok |-> FALSE,
                    before |-> procVars]
    /\ UNCHANGED <<data, metadata, column_types, summary_stats, reader, result>>

\* self.data = pd.read_excel(file_path, engine='openpyxl')
LoadRead ==
    /\ loader.pc = "read"
    /\ LET f == Files[loader.path[2]]
       IN IF f.ok
          THEN /\ data' = f.table
               /\ loader' = [loader EXCEPT !.pc = "metadata"]
          ELSE /\ data' = data
               /\ loader' = [loader EXCEPT !.pc = "except"]
    /\ UNCHANGED <<file_path, metadata, column_types, summary_stats,
                   lastLoad, reader, result>>

\* _process_metadata: self.metadata = {...}
LoadMetadata ==
    /\ loader.pc = "metadata"
    /\ metadata' = IF data.isNone THEN metadata ELSE MetadataDict(data, file_path)
    /\ loader' = [loader EXCEPT !.pc = "types"]
    /\ UNCHANGED <<data, file_path, column_types, summary_stats,
                   lastLoad, reader, result>>

\* _process_metadata: self.column_types = {} and the loop over the columns
LoadColumnTypes ==
    /\ loader.pc = "types"
    /\ column_types' = IF data.isNone THEN column_types ELSE ColumnTypes(data)
    /\ loader' = [loader EXCEPT !.pc = "attach"]
    /\ UNCHANGED <<data, file_path, metadata, summary_stats,
                   lastLoad, reader, result>>

\* _process_metadata: self.metadata['column_types'] = self.column_types
LoadAttachTypes ==
    /\ loader.pc = "attach"
    /\ metadata' = IF data.isNone THEN metadata ELSE AttachTypes(metadata, column_types)
    /\ loader' = [loader EXCEPT !.pc = "numeric"]
    /\ UNCHANGED <<data, file_path, column_types, summary_stats,
                   lastLoad, reader, result>>

\* _calculate_summary_stats: self.summary_stats['numeric']
LoadSummaryNumeric ==
    /\ loader.pc = "numeric"
    /\ summary_stats' = IF data.isNone THEN summary_stats
                        ELSE SummaryNumeric(summary_stats, data)
    /\ loader' = [loader EXCEPT !.pc = "categorical"]
    /\ UNCHANGED <<data, file_path, metadata, column_types,
                   lastLoad, reader, result>>

\* _calculate_summary_stats: self.summary_stats['categorical']
LoadSummaryCategorical ==
    /\ loader.pc = "categorical"
    /\ summary_stats' = IF data.isNone THEN summary_stats
                        ELSE SummaryCategorical(summary_stats, data)
    /\ loader' = [loader EXCEPT !.pc = "missing"]
    /\ UNCHANGED <<data, file_path, metadata, column_types,
                   lastLoad, reader, result>>

\* _calculate_summary_stats: self.summary_stats['missing_values']
LoadSummaryMissing ==
    /\ loader.pc = "missing"
    /\ summary_stats' = IF data.isNone THEN summary_stats
                        ELSE SummaryMissing(summary_stats, data)
    /\ loader' = [loader EXCEPT !.pc = "return"]
    /\ UNCHANGED <<data, file_path, metadata, column_types,
                   lastLoad, reader, result>>

\* return True
LoadReturnTrue ==
    /\ loader.pc = "return"
    /\ lastLoad' = [lastLoad EXCEPT !.called = TRUE, !.ok = TRUE]
    /\ loader' = LoaderIdle
    /\ UNCHANGED <<procVars, reader, result>>

\* except Exception: return False
LoadReturnFalse ==
    /\ loader.pc = "except"
    /\ lastLoad' = [lastLoad EXCEPT !.called = TRUE, !.ok = FALSE]
    /\ loader' = LoaderIdle
    /\ UNCHANGED <<procVars, reader, result>>

-----------------------------------------------------------------------------
(* GET /api/data/summary, statement by statement *)

ReaderIdle ==
    [pc |-> "idle", status |-> 0, metadata |-> EmptyMetadata,
     summary |-> EmptySummary]

\* if data_processor.data is None: return 404
ReaderCheck ==
    /\ reader.pc \in {"idle", "responded"}
    /\ reader' = IF data.isNone
                 THEN [ReaderIdle EXCEPT !.pc = "responded", !.status = 404]
                 ELSE [ReaderIdle EXCEPT !.pc = "checked"]
    /\ UNCHANGED <<procVars, loader, lastLoad, result>>

\* metadata = data_processor.get_metadata()
ReaderGetMetadata ==
    /\ reader.pc = "checked"
    /\ reader' = [reader EXCEPT !.pc = "gotmeta", !.metadata = metadata]
    /\ UNCHANGED <<procVars, loader, lastLoad, result>>

\* summary_stats = data_processor.get_summary_stats(); return 200
ReaderGetSummary ==
    /\ reader.pc = "gotmeta"
    /\ reader' = [reader EXCEPT !.pc = "responded", !.status = 200,
                                !.summary = summary_stats]
    /\ UNCHANGED <<procVars, loader, lastLoad, result>>

-----------------------------------------------------------------------------
(* The load specification: uploads and summary requests on one processor *)

NoResult == [op |-> "none"]

\* DataProcessor.__init__
Init ==
    /\ data = NoTable
    /\ file_path = NoPath
    /\ summary_stats = EmptySummary
    /\ column_types = << >>
    /\ metadata = EmptyMetadata
    /\ loader = LoaderIdle
    /\ lastLoad = NoLoad
    /\ reader = ReaderIdle
    /\ result = NoResult

Next ==
    \/ \E k \in DOMAIN Files : LoadBegin(k)
    \/ LoadRead
    \/ LoadMetadata
    \/ LoadColumnTypes
    \/ LoadAttachTypes
    \/ LoadSummaryNumeric
    \/ LoadSummaryCategorical
    \/ LoadSummaryMissing
    \/ LoadReturnTrue
    \/ LoadReturnFalse
    \/ ReaderCheck
    \/ ReaderGetMetadata
    \/ ReaderGetSummary

Spec == Init /\ [][Next]_vars

-----------------------------------------------------------------------------
(* Properties of the load specification *)

\* What a processor holds after loading table T from path p into a freshly
\* constructed processor: every entry computed from T alone.
FreshMetadata(T, p) == AttachTypes(MetadataDict(T, p), ColumnTypes(T))
FreshSummary(T) == CalculateSummaryStats(EmptySummary, T)

\* The load that last returned True replaced an earlier table.
ReloadReturnedTrue ==
    /\ loader.pc = "idle"
    /\ lastLoad.called /\ lastLoad.ok
    /\ ~lastLoad.before[1].isNone

\* C1: after load_data(T2) returns True following an earlier successful
\* load_data(T1), the table, the metadata, the column types and every key of
\* the summary statistics are computed from T2 only; nothing derived from T1
\* remains.
C1_ReloadReflectsOnlyNewTable ==
    ReloadReturnedTrue =>
        LET T2 == Files[lastLoad.path[2]].table
        IN /\ data = T2
           /\ metadata = FreshMetadata(T2, lastLoad.path)
           /\ column_types = ColumnTypes(T2)
           /\ summary_stats = FreshSummary(T2)

\* Everything of C1 except the 'numeric' entry of the summary statistics does
\* reflect the new table only.
ReloadFreshExceptNumeric ==
    ReloadReturnedTrue =>
        LET T2 == Files[lastLoad.path[2]].table
        IN /\ data = T2
           /\ metadata = FreshMetadata(T2, lastLoad.path)
           /\ column_types = ColumnTypes(T2)
           /\ summary_stats.categorical = FreshSummary(T2).categorical
           /\ summary_stats.missing_values = FreshSummary(T2).missing_values

\* C2: when load_data returns False, data, file_path, metadata, column_types
\* and summary_stats are exactly what they were before the call.
C2_FailedLoadChangesNothing ==
    (loader.pc = "idle" /\ lastLoad.called /\ ~lastLoad.ok) =>
        procVars = lastLoad.before

\* A failed load leaves everything but file_path as it was.
FailedLoadKeepsTable ==
    (loader.pc = "idle" /\ lastLoad.called /\ ~lastLoad.ok) =>
        /\ data = lastLoad.before[1]
        /\ metadata = lastLoad.before[3]
        /\ column_types = lastLoad.before[4]
        /\ summary_stats = lastLoad.before[5]

\* Metadata m and summary statistics s describe one and the same uploaded
\* table (the 'numeric' entry, which C1 is about, is left out).
SameLoad(m, s) ==
    \E k \in DOMAIN Files :
        /\ Files[k].ok
        /\ m = FreshMetadata(Files[k].table, Path(k))
        /\ {"categorical", "missing_values"} \subseteq s.keys
        /\ s.categorical = FreshSummary(Files[k].table).categorical
        /\ s.missing_values = FreshSummary(Files[k].table).missing_values

\* C3: a summary request that interleaves with a load never observes a mixed
\* state: the metadata and the summary statistics it answers with belong to
\* the same load.
C3_ReaderNeverSeesMixedState ==
    (reader.pc = "responded" /\ reader.status = 200) =>
        SameLoad(reader.metadata, reader.summary)

\* While no load is in progress the processor's own fields do belong to one
\* load: the mixed states of C3 come from the interleaving alone.
QuiescentStateIsOneLoad ==
    (loader.pc = "idle" /\ ~data.isNone) => SameLoad(metadata, summary_stats)

-----------------------------------------------------------------------------
(* DataProcessor._find_column_by_pattern *)

NotFound == [found |-> FALSE, col |-> << >>]
Found(c) == [found |-> TRUE, col |-> c]

RECURSIVE FindFrom(_, _, _, _)
\* The nested loops: patterns outside, columns inside, first hit returns.
FindFrom(T, patterns, pi, ci) ==
    IF pi > Len(patterns) THEN NotFound
    ELSE IF ci > Len(T.cols) THEN FindFrom(T, patterns, pi + 1, 1)
    ELSE IF Contains(Lower(patterns[pi]), Lower(T.cols[ci])) THEN Found(T.cols[ci])
    ELSE FindFrom(T, patterns, pi, ci + 1)

RECURSIVE FindColumnMajorFrom(_, _, _, _)
\* The loops the other way round: columns outside, patterns inside.
FindColumnMajorFrom(T, patterns, ci, pi) ==
    IF ci > Len(T.cols) THEN NotFound
    ELSE IF pi > Len(patterns) THEN FindColumnMajorFrom(T, patterns, ci + 1, 1)
    ELSE IF Contains(Lower(patterns[pi]), Lower(T.cols[ci])) THEN Found(T.cols[ci])
    ELSE FindColumnMajorFrom(T, patterns, ci, pi + 1)

FindColumnMajor(T, patterns) ==
    IF T.isNone THEN NotFound ELSE FindColumnMajorFrom(T, patterns, 1, 1)

FindColumnByPattern(T, patterns) ==
    IF T.isNone THEN NotFound ELSE FindFrom(T, patterns, 1, 1)

-----------------------------------------------------------------------------
(* DataProcessor.calculate_driver_scores *)

\* A DataFrame of scores: the column names in insertion order and each
\* column's values, one per driver.
EmptyFrame == [cols |-> << >>, val |-> << >>]

\* scores_df[name] = values
SetCol(df, name, values) ==
    [cols |-> IF name \in Range(df.cols) THEN df.cols ELSE Append(df.cols, name),
     val |-> (name :> values) @@ df.val]

HasCol(df, name) == name \in Range(df.cols)

\* The empty frame of the other early return, in place of the error record.
SilentEmptyFrame == [cols |-> << >>, val |-> << >>]

\* pd.DataFrame({'erro': ['Coluna de motorista não encontrada']})
ErrorFrame ==
    SetCol(EmptyFrame, "erro", <<Str("Coluna de motorista nao encontrada")>>)

\* Every row of the table, whatever its driver.
RowsOfAll(T, dcol, x) == Tup([i \in DOMAIN T.rows |-> i])

\* self.data[self.data[driver_col] == x]: the rows of driver x, in table order.
RowsOf(T, dcol, x) ==
    SelectIdx({i \in DOMAIN T.rows : PdEq(T.rows[i][ColIndex(T, dcol)], x)},
              1, Len(T.rows))

\* self.data[self.data[driver_col] == x][col]: a column over the rows of x.
CellsOf(T, dcol, x, col) ==
    LET rs == RowsOf(T, dcol, x)
        j == ColIndex(T, col)
    IN Tup([k \in DOMAIN rs |-> T.rows[rs[k]][j]])

\* scores_df['motorista'].apply(lambda x: <aggregate of col over x's rows>)
PerDriverSum(T, dcol, drivers, col) ==
    Tup([k \in DOMAIN drivers |-> SeriesSum(CellsOf(T, dcol, drivers[k], col))])

PerDriverMean(T, dcol, drivers, col) ==
    Tup([k \in DOMAIN drivers |-> SeriesMean(CellsOf(T, dcol, drivers[k], col))])

\* The trip count taken with plain equality, under which a missing driver
\* value matches the rows whose driver is missing.
PerDriverCountByEquality(T, dcol, drivers) ==
    Tup([k \in DOMAIN drivers |->
           Num(Cardinality({i \in DOMAIN T.rows :
                              T.rows[i][ColIndex(T, dcol)] = drivers[k]}))])

PerDriverCount(T, dcol, drivers) ==
    Tup([k \in DOMAIN drivers |-> Num(Len(RowsOf(T, dcol, drivers[k])))])

\* The '<col>_norm' name of a score column.
NormName(c) ==
    CASE c = "distancia_total" -> "distancia_total_norm"
      [] c = "total_viagens" -> "total_viagens_norm"
      [] c = "tempo_total" -> "tempo_total_norm"
      [] c = "consumo_total" -> "consumo_total_norm"
      [] c = "eventos_norm" -> "eventos_norm_norm"
      [] OTHER -> c

\* A role's total and mean columns, added when the role column was found.
WithTotalAndMean(df, T, dcol, drivers, role, totalName, meanName) ==
    IF role.found
    THEN SetCol(SetCol(df, totalName, PerDriverSum(T, dcol, drivers, role.col)),
                meanName, PerDriverMean(T, dcol, drivers, role.col))
    ELSE df

\* The event role's total column.
WithEventTotal(df, T, dcol, drivers, role) ==
    IF role.found
    THEN SetCol(df, "total_eventos", PerDriverSum(T, dcol, drivers, role.col))
    ELSE df

\* 100 - (scores_df['total_eventos'] / scores_df['total_eventos'].max() * 100)
EventosNorm(totals) ==
    LET maxVal == SeriesMax(totals)
    IN Tup([k \in DOMAIN totals |->
              FSub(Num(100), FMul(FDiv(totals[k], maxVal), Num(100)))])

\* The share of the maximum left as a fraction, without the scale of 100.
FractionOfMax(values, maxVal) ==
    Tup([k \in DOMAIN values |-> FDiv(values[k], maxVal)])

\* scores_df[col] / max_val * 100
ValueOverMax(values, maxVal) ==
    Tup([k \in DOMAIN values |-> FMul(FDiv(values[k], maxVal), Num(100))])

\* max_val > 0 (False for NaN)
IsPositive(v) == ~IsNaN(v) /\ FLess(Num(0), v)

\* Every score column goes through value/max*100, eventos_norm included.
NormalizesAll(col) == TRUE

\* if col != 'eventos_norm'
IsRawScoreColumn(col) == col # "eventos_norm"

RECURSIVE NormalizeFrom(_, _, _)
\* The loop "for col in score_columns": a raw column with a positive maximum
\* gets a '<col>_norm' column, which takes its place in score_columns.
NormalizeFrom(df, sc, i) ==
    IF i > Len(sc) THEN [df |-> df, score_columns |-> sc]
    ELSE LET col == sc[i]
             maxVal == SeriesMax(df.val[col])
         IN IF IsRawScoreColumn(col) /\ IsPositive(maxVal)
            THEN NormalizeFrom(SetCol(df, NormName(col), ValueOverMax(df.val[col], maxVal)),
                               [sc EXCEPT ![i] = NormName(col)], i + 1)
            ELSE NormalizeFrom(df, sc, i + 1)

\* scores_df[score_columns].mean(axis=1): per driver, the mean of the score
\* columns' values, missing ones skipped.
RowMean(df, sc, n) ==
    Tup([k \in 1..n |-> SeriesMean(Tup([c \in DOMAIN sc |-> df.val[sc[c]][k]]))])

\* Lines 252-279: the score columns, their normalisation and score_geral.
ComposeScores(df0, n) ==
    LET sc1 == IF HasCol(df0, "distancia_total") THEN <<"distancia_total">> ELSE << >>
        sc2 == IF HasCol(df0, "total_viagens") THEN Append(sc1, "total_viagens") ELSE sc1
        df1 == IF HasCol(df0, "total_eventos")
               THEN SetCol(df0, "eventos_norm", EventosNorm(df0.val["total_eventos"]))
               ELSE df0
        sc3 == IF HasCol(df0, "total_eventos") THEN Append(sc2, "eventos_norm") ELSE sc2
    IN IF sc3 # << >>
       THEN LET nz == NormalizeFrom(df1, sc3, 1)
            IN [df |-> SetCol(nz.df, "score_geral", RowMean(nz.df, nz.score_columns, n)),
                score_columns |-> nz.score_columns]
       ELSE [df |-> df1, score_columns |-> sc3]

\* A role column of a text dtype raises, whatever its cells.
TextColumnRaises(T, dcol, drivers, role) ==
    role.found /\ ~IsNumericDtype(Dtype(Column(T, role.col)))

\* A role column that holds text makes the aggregation of a driver with such
\* a cell raise TypeError: sum() over text and numbers or mean() over text
\* for distance, time and fuel (lines 219-222), and the division of the
\* concatenated text by the maximum for events (line 264).  Nothing in
\* calculate_driver_scores catches it.
TextAggregateRaises(T, dcol, drivers, role) ==
    /\ role.found
    /\ \E k \in DOMAIN drivers :
          \E c \in Range(CellsOf(T, dcol, drivers[k], role.col)) : c.t = "str"

\* What calculate_driver_scores returns for table T: kind "empty" is the
\* empty DataFrame of a processor without table, "error" the one-record
\* 'erro' frame, "frame" the scores, and "raises" an exception that leaves
\* the method instead of a return value; score_columns is the final value of
\* the local list of that name.
DriverScores(T) ==
    IF T.isNone
    THEN [kind |-> "empty", df |-> EmptyFrame, score_columns |-> << >>]
    ELSE LET driver == FindColumnByPattern(T, DriverPatterns)
         IN IF ~driver.found
            THEN [kind |-> "error", df |-> ErrorFrame, score_columns |-> << >>]
            ELSE IF \E patterns \in {DistPatterns, TimePatterns, FuelPatterns,
                                      EventPatterns} :
                       TextAggregateRaises(T, driver.col,
                           Unique(Column(T, driver.col)),
                           FindColumnByPattern(T, patterns))
            THEN [kind |-> "raises", df |-> EmptyFrame, score_columns |-> << >>]
            ELSE LET drivers == Unique(Column(T, driver.col))
                     d0 == SetCol(EmptyFrame, "motorista", drivers)
                     d1 == SetCol(d0, "total_viagens",
                                  PerDriverCount(T, driver.col, drivers))
                     d2 == WithTotalAndMean(d1, T, driver.col, drivers,
                               FindColumnByPattern(T, DistPatterns),
                               "distancia_total", "distancia_media")
                     d3 == WithTotalAndMean(d2, T, driver.col, drivers,
                               FindColumnByPattern(T, TimePatterns),
                               "tempo_total", "tempo_medio")
                     d4 == WithTotalAndMean(d3, T, driver.col, drivers,
                               FindColumnByPattern(T, FuelPatterns),
                               "consumo_total", "consumo_medio")
                     d5 == WithEventTotal(d4, T, driver.col, drivers,
                               FindColumnByPattern(T, EventPatterns))
                     out == ComposeScores(d5, Len(drivers))
                 IN [kind |-> "frame", df |-> out.df,
                     score_columns |-> out.score_columns]

-----------------------------------------------------------------------------
(* The tables of the scoring specification *)

DriverCells == {Str("A"), Str("B"), NaN}
TwoDrivers == {Str("A"), Str("B")}
FirstDriver == {Str("A"), NaN}
SecondDriver == {Str("B"), NaN}
PlateCells == {Str("P")}
DistCells == {Num(0), Num(3), NaN}
EventCells == {Num(0), Num(2), NaN}
FewDistCells == {Num(0), Num(2)}
FewEventCells == {Num(0), Num(1)}
TimeCells == {Num(1), NaN}
FuelCells == {Num(0), Num(2)}
TextCells == {Str("X"), NaN}

\* A layout is a sequence of columns, each a name and the cells it may hold.
Layouts ==
    { << <<ColMotorista, DriverCells>> >>,
      << <<ColMotorista, DriverCells>>, <<ColDistanciaKM, DistCells>> >>,
      << <<ColDistanciaKM, FewDistCells>>, <<ColMotorista, TwoDrivers>> >>,
      << <<ColMotorista, DriverCells>>, <<ColEventos, EventCells>> >>,
      << <<ColMotorista, TwoDrivers>>, <<ColDistanciaKM, FewDistCells>>,
         <<ColEventos, FewEventCells>> >>,
      << <<ColMotorista, TwoDrivers>>, <<ColTempo, TimeCells>>,
         <<ColConsumo, FuelCells>> >>,
      << <<ColCondutor, FirstDriver>>, <<ColMotorista, SecondDriver>> >>,
      << <<ColPlaca, PlateCells>>, <<ColDistanciaKM, DistCells>> >>,
      << <<ColMotorista, TwoDrivers>>, <<ColEventos, TextCells>> >>,
      << <<ColMotorista, FirstDriver>>, <<ColDistanciaKM, {Str("X")}>> >> }

AllCells ==
    DriverCells \cup PlateCells \cup DistCells \cup EventCells \cup TimeCells
        \cup FuelCells \cup TextCells

\* The rows of a layout; a row has at least one cell that is not missing.
RowsOver(layout) ==
    {r \in [DOMAIN layout -> AllCells] :
        /\ \A j \in DOMAIN layout : r[j] \in layout[j][2]
        /\ \E j \in DOMAIN layout : ~IsNaN(r[j])}

\* Every table of a layout with at most MaxRows rows.
TablesOver(layout) ==
    UNION {{Table([j \in DOMAIN layout |-> layout[j][1]], rows) :
               rows \in [1..m -> RowsOver(layout)]} : m \in 0..MaxRows}

\* Drivers A, A, B with distances 100, 300, 50.
ExampleTrips ==
    Table(<<ColMotorista, ColDistanciaKM>>,
          << <<Str("A"), Num(100)>>, <<Str("A"), Num(300)>>, <<Str("B"), Num(50)>> >>)

\* Three drivers with distances 10, 20, 40 and event counts 0, 2, 4.
ExampleNormalization ==
    Table(<<ColMotorista, ColDistanciaKM, ColEventos>>,
          << <<Str("A"), Num(10), Num(0)>>, <<Str("B"), Num(20), Num(2)>>,
             <<Str("C"), Num(40), Num(4)>> >>)

\* Corrections entered as negative distances and event counts.
ExampleNegative ==
    Table(<<ColMotorista, ColDistanciaKM, ColEventos>>,
          << <<Str("A"), Num(-5), Num(-1)>>, <<Str("B"), Num(0), Num(0)>> >>)

ExampleTables == {ExampleTrips, ExampleNormalization, ExampleNegative}

ScoreTables == (UNION {TablesOver(l) : l \in Layouts}) \cup ExampleTables

\* Pattern lists handed to _find_column_by_pattern: those of
\* calculate_driver_scores, and two in another order and case.
PriorityPatterns ==
    << <<"d","i","s","t","a","n","c","i","a">>,
       <<"m","o","t","o","r","i","s","t","a">> >>

MixedCasePatterns == << <<"K","M">>, <<"P","l","a","c","a">> >>

PatternLists ==
    { DriverPatterns, DistPatterns, TimePatterns, FuelPatterns, EventPatterns,
      PriorityPatterns, MixedCasePatterns }

-----------------------------------------------------------------------------
(* The scoring specification: queries on a processor that holds a table *)

\* The path the table of the scoring specification was loaded from.
ScorePath == Path(0)

\* A constructed processor, or one whose first load_data returned True.
ScoreInit ==
    /\ data \in ScoreTables \cup {NoTable}
    /\ file_path = IF data.isNone THEN NoPath ELSE ScorePath
    /\ metadata = IF data.isNone THEN EmptyMetadata
                  ELSE AttachTypes(MetadataDict(data, ScorePath), ColumnTypes(data))
    /\ column_types = IF data.isNone THEN << >> ELSE ColumnTypes(data)
    /\ summary_stats = IF data.isNone THEN EmptySummary
                       ELSE CalculateSummaryStats(EmptySummary, data)
    /\ loader = LoaderIdle
    /\ lastLoad = NoLoad
    /\ reader = ReaderIdle
    /\ result = NoResult

\* A call of _find_column_by_pattern(patterns)
FindColumn(patterns) ==
    /\ result' = [op |-> "find", patterns |-> patterns,
                  value |-> FindColumnByPattern(data, patterns)]
    /\ UNCHANGED <<procVars, loader, lastLoad, reader>>

\* A call of calculate_driver_scores()
CalculateDriverScores ==
    /\ result' = [op |-> "scores", value |-> DriverScores(data)]
    /\ UNCHANGED <<procVars, loader, lastLoad, reader>>

ScoreNext ==
    \/ \E patterns \in PatternLists : FindColumn(patterns)
    \/ CalculateDriverScores

ScoreSpec == ScoreInit /\ [][ScoreNext]_vars

-----------------------------------------------------------------------------
(* Properties of the scoring specification *)

\* Pattern p is a case-insensitive substring of column name c, character by
\* character.
Matches(p, c) ==
    \E off \in 1..(Len(c) - Len(p) + 1) :
        \A k \in 1..Len(p) : LowerChar(p[k]) = LowerChar(c[off + k - 1])

\* The positions of the columns of T whose name contains pattern p.
MatchingColumns(T, p) == {j \in DOMAIN T.cols : Matches(p, T.cols[j])}

ScoresReturned == result.op = "scores"
FrameReturned == result.op = "scores" /\ result.value.kind = "frame"

\* C4: _find_column_by_pattern returns, for the earliest pattern that is a
\* case-insensitive substring of some column name, the first such column in
\* column order, and None when no pattern matches or no table is loaded;
\* columns Motorista, Distancia_KM with patterns distancia, motorista give
\* Distancia_KM.
C4_FindColumnEarliestPatternWins ==
    result.op = "find" =>
        LET P == result.patterns
            hits == {i \in DOMAIN P : MatchingColumns(data, P[i]) # {}}
        IN /\ IF data.isNone \/ hits = {}
              THEN result.value = NotFound
              ELSE LET i0 == CHOOSE i \in hits : \A h \in hits : i <= h
                       js == MatchingColumns(data, P[i0])
                       j0 == CHOOSE j \in js : \A h \in js : j <= h
                   IN result.value = Found(data.cols[j0])
           /\ (data.cols = <<ColMotorista, ColDistanciaKM>> /\ P = PriorityPatterns)
                  => result.value = Found(ColDistanciaKM)

C4_Witness ==
    /\ result.op = "find"
    /\ data.cols = <<ColMotorista, ColDistanciaKM>>
    /\ result.patterns = PriorityPatterns
    /\ result.value = Found(ColDistanciaKM)

\* No column name of T contains a driver pattern.
NoDriverColumn(T) ==
    /\ ~T.isNone
    /\ \A i \in DOMAIN DriverPatterns : MatchingColumns(T, DriverPatterns[i]) = {}

\* C5: with a table loaded and no column name containing "motorista",
\* "condutor" or "driver", calculate_driver_scores returns the one-record
\* 'driver column not found' frame instead of raising, and the call leaves
\* the processor state as it was.
C5_NoDriverColumnGivesErrorRecord ==
    /\ []((ScoresReturned /\ NoDriverColumn(data)) =>
            /\ result.value.kind = "error"
            /\ result.value.df.cols = <<"erro">>
            /\ Len(result.value.df.val["erro"]) = 1
            /\ result.value.df.val["erro"][1].t = "str")
    /\ [][(NoDriverColumn(data) /\ result'.op = "scores") => UNCHANGED procVars]_vars

C5_Witness ==
    /\ ScoresReturned
    /\ NoDriverColumn(data)
    /\ Len(data.rows) > 0
    /\ result.value.kind = "error"

\* The driver column of the loaded table, as a sequence of cells.
DriverCellsOfData == Column(data, FindColumnByPattern(data, DriverPatterns).col)

\* C6: calculate_driver_scores returns exactly one record per distinct value
\* of the driver column, without duplicates, in order of first occurrence.
C6_OneRecordPerDriverInFirstSeenOrder ==
    FrameReturned =>
        LET dc == DriverCellsOfData
            df == result.value.df
            m == df.val["motorista"]
            First(v) == CHOOSE i \in DOMAIN dc :
                            dc[i] = v /\ \A k \in 1..(i - 1) : dc[k] # v
        IN /\ Range(m) = Range(dc)
           /\ Len(m) = Cardinality(Range(dc))
           /\ \A a, b \in DOMAIN m :
                 a < b => (m[a] # m[b] /\ First(m[a]) < First(m[b]))
           /\ \A c \in Range(df.cols) : Len(df.val[c]) = Len(m)

C6_Witness ==
    /\ FrameReturned
    /\ data = ExampleTrips
    /\ result.value.df.val["motorista"] = <<Str("A"), Str("B")>>

RECURSIVE IntSumOver(_, _)
\* The sum of the whole-number cells at the positions S.
IntSumOver(S, cells) ==
    IF S = {} THEN 0
    ELSE LET i == CHOOSE i \in S : TRUE
         IN cells[i].n + IntSumOver(S \ {i}, cells)

\* Value v is the whole number n.
IsInt(v, n) == IsNum(v) /\ v.d = 1 /\ v.n = n

\* Value v is the quotient a/b of whole numbers, b > 0.
IsQuotient(v, a, b) == IsNum(v) /\ v.n * b = a * v.d

\* For driver number k of the frame, the total (and, when meanName is not
\* "", the mean) of the role column found by the patterns is what the rows of
\* that driver give; missing cells are left out of both.
AggregatesRight(k, patterns, totalName, meanName) ==
    LET role == FindColumnByPattern(data, patterns)
        dc == DriverCellsOfData
        df == result.value.df
        d == df.val["motorista"][k]
        cells == Column(data, role.col)
        mine == {i \in DOMAIN dc : dc[i] = d /\ ~IsNaN(d) /\ ~IsNaN(cells[i])}
    IN role.found =>
         /\ HasCol(df, totalName)
         /\ IsInt(df.val[totalName][k], IntSumOver(mine, cells))
         /\ meanName # "" =>
              /\ HasCol(df, meanName)
              /\ IF mine = {} THEN IsNaN(df.val[meanName][k])
                 ELSE IsQuotient(df.val[meanName][k], IntSumOver(mine, cells),
                                 Cardinality(mine))

LargestOf(values) ==
    LET present == {i \in DOMAIN values : IsNum(values[i])}
    IN IF present = {} THEN NaN
       ELSE values[CHOOSE i \in present :
                      \A k \in present :
                          values[k].n * values[i].d <= values[i].n * values[k].d]

\* Value r is v / m * 100 for finite v and a finite m other than 0.
IsShareOfMax(r, v, m) ==
    IsNum(r) /\ r.n * m.n * v.d = 100 * v.n * m.d * r.d

\* The raw per-driver metrics other than the event count.
RawMetrics == {"total_viagens", "distancia_total", "tempo_total", "consumo_total"}

\* C8: for every metric present other than event-count, the normalized value
\* of each driver is value / (maximum of the metric over all drivers) * 100.
C8_EveryMetricNormalizedByMax ==
    (FrameReturned /\ result.value.df.val["motorista"] # << >>) =>
        LET df == result.value.df
        IN \A c \in RawMetrics :
              HasCol(df, c) =>
                 /\ HasCol(df, NormName(c))
                 /\ \A k \in DOMAIN df.val[c] :
                       IsShareOfMax(df.val[NormName(c)][k], df.val[c][k],
                                    LargestOf(df.val[c]))

\* Where calculate_driver_scores does produce a '<metric>_norm' column, its
\* values are value / max * 100 with a positive max; that happens for
\* total_viagens and distancia_total only.  Raw values 10, 20, 40 give
\* 25, 50, 100, and distance totals 400 and 50 give 100 and 12.5.
ProducedNormsFollowFormula ==
    FrameReturned =>
        LET df == result.value.df
        IN /\ \A c \in RawMetrics :
                 HasCol(df, NormName(c)) =>
                    /\ c \in {"total_viagens", "distancia_total"}
                    /\ LargestOf(df.val[c]).n > 0
                    /\ \A k \in DOMAIN df.val[c] :
                          IsShareOfMax(df.val[NormName(c)][k], df.val[c][k],
                                       LargestOf(df.val[c]))
           /\ data = ExampleNormalization =>
                 df.val["distancia_total_norm"] = <<Num(25), Num(50), Num(100)>>
           /\ data = ExampleTrips =>
                 df.val["distancia_total_norm"] = <<Num(100), Rat(25, 2)>>

\* C9: the event count is normalized inversely, 100 - value / max * 100, so
\* that event totals 0, 2, 4 give 100, 50, 0; the inverse-normalized column
\* enters the overall score as it is and never goes through value/max*100 a
\* second time.
C9_EventsInverseNormalizedOnce ==
    (FrameReturned /\ HasCol(result.value.df, "total_eventos")) =>
        LET df == result.value.df
            sc == result.value.score_columns
            ev == df.val["total_eventos"]
            en == df.val["eventos_norm"]
            m == LargestOf(ev)
        IN /\ HasCol(df, "eventos_norm")
           /\ (IsNum(m) /\ m.n # 0) =>
                 \A k \in DOMAIN ev :
                    /\ IsNum(en[k])
                    /\ en[k].n * m.n * ev[k].d
                          = (100 * m.n * ev[k].d - 100 * ev[k].n * m.d) * en[k].d
           /\ ~HasCol(df, "eventos_norm_norm")
           /\ Cardinality({c \in DOMAIN sc : sc[c] = "eventos_norm"}) = 1
           /\ \A k \in DOMAIN ev :
                 df.val["score_geral"][k]
                    = SeriesMean([c \in DOMAIN sc |-> df.val[sc[c]][k]])
           /\ data = ExampleNormalization =>
                 en = <<Num(100), Num(50), Num(0)>>

C9_Witness ==
    /\ FrameReturned
    /\ data = ExampleNormalization
    /\ result.value.df.val["eventos_norm"] = <<Num(100), Num(50), Num(0)>>
    /\ "eventos_norm" \in Range(result.value.score_columns)

\* C10: whenever the maximum of a metric over all drivers is 0, the
\* normalized value of that metric is 0 for every driver, and that 0 (not the
\* raw column, and not an undefined value) is what enters the overall score.
C10_ZeroMaximumNormalizesToZero ==
    (FrameReturned /\ result.value.df.val["motorista"] # << >>) =>
        LET df == result.value.df
            sc == result.value.score_columns
            zero == [k \in DOMAIN df.val["motorista"] |-> Num(0)]
        IN /\ \A c \in {"total_viagens", "distancia_total"} :
                 (HasCol(df, c) /\ LargestOf(df.val[c]) = Num(0)) =>
                    /\ HasCol(df, NormName(c))
                    /\ df.val[NormName(c)] = zero
                    /\ NormName(c) \in Range(sc)
                    /\ c \notin Range(sc)
           /\ (HasCol(df, "total_eventos") /\ LargestOf(df.val["total_eventos"]) = Num(0)) =>
                 /\ df.val["eventos_norm"] = zero
                 /\ "eventos_norm" \in Range(sc)


\* The normalized columns that the metrics found in a frame call for.
NormalizedMetricColumns(df) ==
    {NormName(c) : c \in {m \in RawMetrics : HasCol(df, m)}}
        \cup (IF HasCol(df, "total_eventos") THEN {"eventos_norm"} ELSE {})

\* C11: score_geral of each driver is the arithmetic mean of the normalized
\* columns of every discovered metric (distance, time, fuel and trip count)
\* and of the inverse-normalized event count; every discovered metric
\* contributes and no raw column does.
C11_ScoreIsMeanOfEveryNormalizedMetric ==
    (FrameReturned /\ result.value.df.val["motorista"] # << >>) =>
        LET df == result.value.df
            sc == result.value.score_columns
        IN /\ Range(sc) = NormalizedMetricColumns(df)
           /\ \A c \in NormalizedMetricColumns(df) : HasCol(df, c)
           /\ \A k \in DOMAIN df.val["motorista"] :
                 df.val["score_geral"][k]
                    = SeriesMean([c \in DOMAIN sc |-> df.val[sc[c]][k]])

\* The overall score is the row mean of the columns the code keeps in
\* score_columns: of the total_viagens, distancia_total and eventos_norm
\* families only, each either normalized or, with a maximum that is not
\* positive, raw.
ScoreIsMeanOfScoreColumns ==
    FrameReturned =>
        LET df == result.value.df
            sc == result.value.score_columns
        IN /\ Range(sc) \subseteq {"distancia_total", "distancia_total_norm",
                                   "total_viagens", "total_viagens_norm",
                                   "eventos_norm"}
           /\ \A k \in DOMAIN df.val["motorista"] :
                 df.val["score_geral"][k]
                    = SeriesMean([c \in DOMAIN sc |-> df.val[sc[c]][k]])

\* The rows of the loaded table whose driver cell is d.
RowsOfDriver(d) == {i \in DOMAIN data.rows : DriverCellsOfData[i] = d /\ ~IsNaN(d)}

\* Driver number k of the frame has rows, and every cell of the role column
\* found by the patterns is missing in them.
AllMissingFor(k, patterns) ==
    LET role == FindColumnByPattern(data, patterns)
        mine == RowsOfDriver(result.value.df.val["motorista"][k])
    IN /\ role.found
       /\ mine # {}
       /\ \A i \in mine : IsNaN(Column(data, role.col)[i])

\* The aggregate named totalName is missing for driver k, and score_geral of
\* k is the mean of the score columns of the other metrics.
ExcludedFor(k, totalName, scoreNames) ==
    LET df == result.value.df
        sc == result.value.score_columns
        others == SelectSeq(sc, LAMBDA c : c \notin scoreNames)
    IN /\ IsNaN(df.val[totalName][k])
       /\ df.val["score_geral"][k]
             = SeriesMean([c \in DOMAIN others |-> df.val[others[c]][k]])

\* C12: when a role column is discovered and all of its values are missing
\* for a driver d, the metric's aggregate for d is a missing value and the
\* metric is left out of d's overall-score average instead of counting as 0.
C12_AllMissingMetricIsExcluded ==
    FrameReturned =>
        \A k \in DOMAIN result.value.df.val["motorista"] :
           /\ AllMissingFor(k, DistPatterns) =>
                 ExcludedFor(k, "distancia_total",
                             {"distancia_total", "distancia_total_norm"})
           /\ AllMissingFor(k, TimePatterns) =>
                 ExcludedFor(k, "tempo_total", {"tempo_total", "tempo_total_norm"})
           /\ AllMissingFor(k, FuelPatterns) =>
                 ExcludedFor(k, "consumo_total",
                             {"consumo_total", "consumo_total_norm"})
           /\ AllMissingFor(k, EventPatterns) =>
                 ExcludedFor(k, "total_eventos", {"eventos_norm"})

\* A float that JSON cannot carry.
NonFinite(v) == IsNaN(v) \/ IsInf(v)

\* C13: no NaN and no infinity is among the values calculate_driver_scores
\* hands to its caller (the chat 'scores' data and the report data are these
\* values, record by record), for every loaded table.
C13_NoNonFiniteValueLeavesTheCore ==
    ScoresReturned =>
        LET df == result.value.df
        IN \A c \in Range(df.cols) \ {"motorista"} :
              \A k \in DOMAIN df.val[c] : ~NonFinite(df.val[c][k])


\* C14: calculate_driver_scores never raises for a loaded table; a role
\* column that holds text instead of numbers ends in a returned result too.
C14_DriverScoresNeverRaises ==
    (ScoresReturned /\ ~data.isNone) => result.value.kind \in {"error", "frame"}


\* The loaded table has a driver column and no distance, time, fuel or event
\* column.
OnlyDriverColumn ==
    /\ ~data.isNone
    /\ FindColumnByPattern(data, DriverPatterns).found
    /\ \A patterns \in {DistPatterns, TimePatterns, FuelPatterns, EventPatterns} :
          ~FindColumnByPattern(data, patterns).found

\* One record per distinct value of the driver column.
OneRecordPerDriver ==
    /\ result.value.kind = "frame"
    /\ Range(result.value.df.val["motorista"]) = Range(DriverCellsOfData)
    /\ Len(result.value.df.val["motorista"]) = Cardinality(Range(DriverCellsOfData))

C16_ZeroRowsGiveEmptySequence ==
    (ScoresReturned /\ ~data.isNone /\ data.rows = << >>
        /\ FindColumnByPattern(data, DriverPatterns).found) =>
        /\ result.value.kind = "frame"
        /\ HasCol(result.value.df, "motorista")
        /\ \A c \in Range(result.value.df.cols) : result.value.df.val[c] = << >>

C16_Witness ==
    /\ ScoresReturned
    /\ data = Table(<<ColMotorista, ColDistanciaKM, ColEventos>>, << >>)
    /\ result.value.kind = "frame"
    /\ result.value.df.val["motorista"] = << >>
    /\ HasCol(result.value.df, "eventos_norm")


-----------------------------------------------------------------------------
(* DataProcessor.calculate_metrics *)

\* The order groupby sorts its keys by: numbers by value, text (one capital
\* letter in this model) by its place in the alphabet.
KeyLess(a, b) ==
    LET LetterRank(c) == CHOOSE i \in DOMAIN UpperChars : UpperChars[i] = c
    IN IF a.t = "str" /\ b.t = "str" THEN LetterRank(a.s) < LetterRank(b.s)
       ELSE FLess(a, b)

RECURSIVE SortedKeys(_)
\* A set of keys in ascending order.
SortedKeys(S) ==
    IF S = {} THEN << >>
    ELSE LET least == CHOOSE x \in S : \A y \in S \ {x} : KeyLess(x, y)
         IN <<least>> \o SortedKeys(S \ {least})

\* self.data.groupby(group_by): the group keys are the values of the column
\* that are not missing (dropna=True), sorted (sort=True).
GroupKeys(T, group_by) ==
    SortedKeys({c \in Range(Column(T, group_by)) : ~IsNaN(c)})

RECURSIVE ConcatFrom(_, _)
\* sum over text cells: the strings joined in row order.
ConcatFrom(cells, i) ==
    IF i > Len(cells) THEN ""
    ELSE cells[i].s \o ConcatFrom(cells, i + 1)

\* The aggregation raises inside groupby(...).agg(...): the mean of a text
\* column.  The sum of text joins the strings, and min and max compare them.
AggregationRaises(T, metric_col, agg_func) ==
    agg_func = "mean" /\ ~IsNumericDtype(Dtype(Column(T, metric_col)))

\* The aggregate of one group's cells; min and max of text cells compare
\* the strings.
Aggregate(agg_func, cells, numeric) ==
    LET TextLeast ==
            cells[CHOOSE i \in DOMAIN cells :
                     \A k \in DOMAIN cells : ~KeyLess(cells[k], cells[i])]
        TextGreatest ==
            cells[CHOOSE i \in DOMAIN cells :
                     \A k \in DOMAIN cells : ~KeyLess(cells[i], cells[k])]
    IN CASE agg_func = "count" -> Num(SeriesCount(cells))
         [] agg_func = "sum" -> IF numeric THEN SeriesSum(cells)
                                ELSE Str(ConcatFrom(cells, 1))
         [] agg_func = "mean" -> SeriesMean(cells)
         [] agg_func = "min" -> IF numeric THEN SeriesMin(cells) ELSE TextLeast
         [] agg_func = "max" -> IF numeric THEN SeriesMax(cells) ELSE TextGreatest

\* pd.DataFrame(): no index, no column.
NoMetrics == [index |-> << >>, cols |-> << >>, val |-> << >>]

\* The grouped frame: the keys as index and one column named metric_col.
GroupedFrame(T, group_by, metric_col, agg_func, keys) ==
    [index |-> keys, cols |-> <<metric_col>>,
     val |-> Tup([k \in DOMAIN keys |->
                    Aggregate(agg_func, CellsOf(T, group_by, keys[k], metric_col),
                              IsNumericDtype(Dtype(Column(T, metric_col))))])]

\* calculate_metrics(group_by, metric_col, agg_func)
CalculateMetricsOf(T, group_by, metric_col, agg_func) ==
    IF T.isNone THEN NoMetrics
    ELSE IF group_by \notin Range(T.cols) \/ metric_col \notin Range(T.cols)
    THEN NoMetrics
    ELSE IF AggregationRaises(T, metric_col, agg_func) THEN NoMetrics
    ELSE GroupedFrame(T, group_by, metric_col, agg_func, GroupKeys(T, group_by))


-----------------------------------------------------------------------------
(* The aggregation specification: calculate_metrics on a processor that     *)
(* holds a table, grouped by a driver column as ChatEngine calls it          *)

\* Drivers with distances, missing cells included, and drivers with a text
\* column of cities X and Y.
MetricLayouts ==
    { << <<ColMotorista, DriverCells>>, <<ColDistanciaKM, DistCells>> >>,
      << <<ColMotorista, TwoDrivers>>, <<ColCidade, {Str("X"), Str("Y")}>> >> }

\* Every table of a metric layout with 1 to MaxRows rows, each row with a
\* cell that is not missing.
MetricTables ==
    LET LayoutRows(l) ==
            {r \in [DOMAIN l -> UNION {l[j][2] : j \in DOMAIN l}] :
                /\ \A j \in DOMAIN l : r[j] \in l[j][2]
                /\ \E j \in DOMAIN l : ~IsNaN(r[j])}
    IN (UNION {UNION {{Table([j \in DOMAIN l |-> l[j][1]], rows) :
                         rows \in [1..m -> LayoutRows(l)]} : m \in 1..MaxRows} :
               l \in MetricLayouts})
           \cup {ExampleTrips}

\* A constructed processor, or one whose first load_data returned True.
MetricsInit ==
    /\ data \in MetricTables \cup {NoTable}
    /\ file_path = IF data.isNone THEN NoPath ELSE ScorePath
    /\ metadata = IF data.isNone THEN EmptyMetadata
                  ELSE AttachTypes(MetadataDict(data, ScorePath), ColumnTypes(data))
    /\ column_types = IF data.isNone THEN << >> ELSE ColumnTypes(data)
    /\ summary_stats = IF data.isNone THEN EmptySummary
                       ELSE CalculateSummaryStats(EmptySummary, data)
    /\ loader = LoaderIdle
    /\ lastLoad = NoLoad
    /\ reader = ReaderIdle
    /\ result = NoResult

\* A call of calculate_metrics(group_by, metric_col, agg_func)
CalculateMetrics(group_by, metric_col, agg_func) ==
    /\ result' = [op |-> "metrics", group_by |-> group_by,
                  metric_col |-> metric_col, agg_func |-> agg_func,
                  value |-> CalculateMetricsOf(data, group_by, metric_col, agg_func)]
    /\ UNCHANGED <<procVars, loader, lastLoad, reader>>

\* The calls: a group-by column and a metric column, either of which the
\* table may lack, and the five aggregation functions.
MetricsNext ==
    \E group_by \in {ColMotorista, ColPlaca},
       metric_col \in {ColDistanciaKM, ColCidade},
       agg_func \in {"mean", "sum", "count", "min", "max"} :
        CalculateMetrics(group_by, metric_col, agg_func)

MetricsSpec == MetricsInit /\ [][MetricsNext]_vars


-----------------------------------------------------------------------------
(* Properties of the aggregation specification *)

MetricsReturned == result.op = "metrics"

\* Both columns named in the call are columns of the loaded table.
ColumnsExist ==
    /\ ~data.isNone
    /\ result.group_by \in Range(data.cols)
    /\ result.metric_col \in Range(data.cols)

\* The metric column of the call holds text.
TextMetric == ~IsNumericDtype(Dtype(Column(data, result.metric_col)))

\* What calculate_metrics returns when the aggregation itself fails: the
\* mean of the text column Cidade.
FailedAggregationResult ==
    CalculateMetricsOf(Table(<<ColMotorista, ColCidade>>, << <<Str("A"), Str("X")>> >>),
                       ColMotorista, ColCidade, "mean")

\* A successful result without groups: every driver cell is missing.
EmptyGroupedResult ==
    CalculateMetricsOf(Table(<<ColMotorista, ColDistanciaKM>>, << <<NaN, Num(3)>> >>),
                       ColMotorista, ColDistanciaKM, "sum")

\* C17: when group_by or metric_col is not a column of the loaded table,
\* calculate_metrics reports a failure of its own kind, which the caller can
\* tell apart from a successful empty result and from the failure of an
\* invalid aggregation.
C17_MissingColumnIsTypedFailure ==
    (MetricsReturned /\ ~data.isNone /\ ~ColumnsExist) =>
        /\ result.value # EmptyGroupedResult
        /\ result.value # FailedAggregationResult

\* A missing column gives pd.DataFrame(), the value returned for a processor
\* without table and for an aggregation that raised; a successful result
\* without groups still has its metric column.
MissingColumnGivesBareFrame ==
    /\ (MetricsReturned /\ ~ColumnsExist) => result.value = NoMetrics
    /\ FailedAggregationResult = NoMetrics
    /\ EmptyGroupedResult # NoMetrics

\* C18: 'count' succeeds on every existing metric column, numeric or text;
\* mean, sum, min and max on a text metric column fail and return no
\* aggregate values.
C18_OnlyCountAggregatesText ==
    (MetricsReturned /\ ColumnsExist) =>
        /\ result.agg_func = "count" =>
              /\ result.value.cols = <<result.metric_col>>
              /\ Len(result.value.val) = Len(result.value.index)
              /\ \A k \in DOMAIN result.value.val : IsNum(result.value.val[k])
        /\ (result.agg_func \in {"mean", "sum", "min", "max"} /\ TextMetric) =>
              /\ result.value.cols = << >>
              /\ result.value.val = << >>

\* 'count' succeeds on every existing metric column, and of the other four
\* functions only 'mean' fails on text.
CountSucceedsAndTextMeanFails ==
    (MetricsReturned /\ ColumnsExist) =>
        /\ result.agg_func = "count" =>
              /\ result.value.cols = <<result.metric_col>>
              /\ \A k \in DOMAIN result.value.index :
                    result.value.val[k]
                       = Num(Cardinality(
                            {i \in DOMAIN data.rows :
                                /\ Column(data, result.group_by)[i] = result.value.index[k]
                                /\ ~IsNaN(Column(data, result.metric_col)[i])}))
        /\ (result.agg_func = "mean" /\ TextMetric) => result.value = NoMetrics
        /\ (result.agg_func \in {"sum", "min", "max"} /\ TextMetric) =>
              /\ result.value.cols = <<result.metric_col>>
              /\ \A k \in DOMAIN result.value.index : result.value.val[k].t = "str"

\* The call returned a grouped frame.
Grouped == MetricsReturned /\ result.value.cols # << >>

\* C19: the result of calculate_metrics has exactly one entry per distinct
\* raw value of the group-by column, none dropped and none merged.
C19_OneEntryPerDistinctGroupValue ==
    Grouped =>
        /\ Range(result.value.index) = Range(Column(data, result.group_by))
        /\ Len(result.value.index) = Cardinality(Range(Column(data, result.group_by)))

\* The keys are the distinct values of the group-by column that are not
\* missing, each once, in ascending order: the same order on every call.
KeysAreSortedPresentValues ==
    Grouped =>
        LET keys == result.value.index
        IN /\ Range(keys) = {c \in Range(Column(data, result.group_by)) : ~IsNaN(c)}
           /\ \A i, j \in DOMAIN keys : i < j => KeyLess(keys[i], keys[j])

\* The role families with the names of their total and mean fields.
RoleFields ==
    { <<DistPatterns, "distancia_total", "distancia_media">>,
      <<TimePatterns, "tempo_total", "tempo_medio">>,
      <<FuelPatterns, "consumo_total", "consumo_medio">>,
      <<EventPatterns, "total_eventos", "">> }

\* The call groups the role column of family f by the driver column, with
\* the function that f's field fieldNo (2 the total, 3 the mean) comes from.
GroupsRoleByDriver(f, fieldNo) ==
    /\ Grouped
    /\ f[fieldNo] # ""
    /\ result.agg_func = (IF fieldNo = 2 THEN "sum" ELSE "mean")
    /\ FindColumnByPattern(data, DriverPatterns) = Found(result.group_by)
    /\ FindColumnByPattern(data, f[1]) = Found(result.metric_col)
    /\ DriverScores(data).kind = "frame"

\* For the drivers in D, the field of calculate_driver_scores equals the
\* entry of the grouped result under the driver's key.
FieldsAgree(D, field) ==
    LET df == DriverScores(data).df
    IN \A k \in DOMAIN df.val["motorista"] :
          df.val["motorista"][k] \in D =>
             \E j \in DOMAIN result.value.index :
                /\ result.value.index[j] = df.val["motorista"][k]
                /\ result.value.val[j] = df.val[field][k]

\* C20: for every driver d and every discovered metric column m, the total
\* of d in calculate_driver_scores equals calculate_metrics(driver_col, m,
\* 'sum')[d], and the mean field equals calculate_metrics(driver_col, m,
\* 'mean')[d].
C20_GroupedPassEqualsPerDriverFilter ==
    \A f \in RoleFields : \A fieldNo \in {2, 3} :
        GroupsRoleByDriver(f, fieldNo) =>
            FieldsAgree(Range(DriverScores(data).df.val["motorista"]), f[fieldNo])

\* The two computations agree on every driver value that is not missing.
GroupedPassAgreesOnPresentDrivers ==
    \A f \in RoleFields : \A fieldNo \in {2, 3} :
        GroupsRoleByDriver(f, fieldNo) =>
            FieldsAgree({d \in Range(DriverScores(data).df.val["motorista"]) : ~IsNaN(d)},
                        f[fieldNo])

-----------------------------------------------------------------------------
(* The summary specification: load_data from the moment read_excel has     *)
(* returned a table into a freshly constructed processor                    *)

\* A sheet at the limit of _calculate_summary_stats: a city column with
\* CategoricalLimit distinct names.
FileManyCities ==
    Table(<<ColCidade>>, Tup([i \in 1..CategoricalLimit |-> <<Str(ToString(i))>>]))

\* A sheet with more than TopValues distinct plates, of which the two seen
\* last occur twice, beside a numeric column of two distinct values.
FileManyPlates ==
    Table(<<ColPlaca, ColEventos>>,
          Tup([i \in 1..(TopValues + 4) |->
                 <<Str(ToString(IF i > TopValues + 2 THEN i - 2 ELSE i)), Num(i % 2)>>]))

\* The sheets read: one column of up to MaxRows cells that are whole numbers,
\* fractions, text or missing, the trips sheet, and the two long sheets.
SummaryTables ==
    LET cells == {Num(1), Rat(5, 2), NaN, Str("A"), Str("B")}
        columns == UNION {[1..m -> cells] : m \in 0..MaxRows}
    IN {Table(<<ColEventos>>, Tup([i \in DOMAIN c |-> <<c[i]>>])) : c \in columns}
       \cup {FileTrips, FileManyCities, FileManyPlates}

\* load_data up to and including self.data = pd.read_excel(...), called on
\* the processor __init__ has built.
SummaryInit ==
    /\ data \in SummaryTables
    /\ file_path = Path(1)
    /\ metadata = EmptyMetadata
    /\ column_types = << >>
    /\ summary_stats = EmptySummary
    /\ loader = [pc |-> "metadata", path |-> Path(1)]
    /\ lastLoad = [NoLoad EXCEPT !.path = Path(1)]
    /\ reader = ReaderIdle
    /\ result = NoResult

\* The rest of load_data: _process_metadata, _calculate_summary_stats, return.
SummaryNext ==
    \/ LoadMetadata
    \/ LoadColumnTypes
    \/ LoadAttachTypes
    \/ LoadSummaryNumeric
    \/ LoadSummaryCategorical
    \/ LoadSummaryMissing
    \/ LoadReturnTrue

SummarySpec == SummaryInit /\ [][SummaryNext]_vars

-----------------------------------------------------------------------------
(* Properties of the summary specification *)

\* The load has returned True.
Loaded == loader.pc = "idle" /\ lastLoad.called /\ lastLoad.ok

\* The cells of column j of the table held that are not missing.
PresentCells(j) == {data.rows[i][j] : i \in {k \in DOMAIN data.rows : ~IsNaN(data.rows[k][j])}}

\* C22: the type recorded for a column is 'integer' when every non-missing
\* value is a whole number (missing values beside them change nothing),
\* 'float' when every non-missing value is a number and some is not whole,
\* and 'text' otherwise.  Columns without any value are left out.
C22_TypeFollowsNonMissingValues ==
    Loaded =>
        \A j \in DOMAIN data.cols :
            PresentCells(j) # {} =>
                /\ column_types[j][1] = data.cols[j]
                /\ column_types[j][2] =
                     IF \A v \in PresentCells(j) : IsNum(v) /\ v.d = 1 THEN "integer"
                     ELSE IF \A v \in PresentCells(j) : IsNum(v) THEN "float"
                     ELSE "text"

\* The claim of C22 does hold of every column without a missing cell.
TypeFollowsValuesWhenNoneMissing ==
    Loaded =>
        \A j \in DOMAIN data.cols :
            (PresentCells(j) # {} /\ \A i \in DOMAIN data.rows : ~IsNaN(data.rows[i][j])) =>
                column_types[j][2] =
                     IF \A v \in PresentCells(j) : IsNum(v) /\ v.d = 1 THEN "integer"
                     ELSE IF \A v \in PresentCells(j) : IsNum(v) THEN "float"
                     ELSE "text"

\* The value counts recorded under one column name, as <<value, count>> pairs.
CountsOf(col) ==
    LET cat == summary_stats.categorical
    IN cat[CHOOSE k \in DOMAIN cat : cat[k][1] = col][2]

\* The pairs are the most frequent values of column j of the table, at most
\* TopValues of them, each with the number of cells that hold it.
IsTopValueCounts(pairs, j) ==
    LET times(v) == Cardinality({i \in DOMAIN data.rows : data.rows[i][j] = v})
        listed == {pairs[k][1] : k \in DOMAIN pairs}
    IN /\ listed \subseteq PresentCells(j)
       /\ Cardinality(listed) = Len(pairs)
       /\ Len(pairs) = IF Cardinality(PresentCells(j)) < TopValues
                       THEN Cardinality(PresentCells(j)) ELSE TopValues
       /\ \A k \in DOMAIN pairs : pairs[k][2] = times(pairs[k][1])
       /\ \A v \in PresentCells(j) \ listed : \A w \in listed : times(v) <= times(w)

\* 'missing_values' has one entry per column of the table, whatever its type:
\* the number of its missing cells.
MissingCountsForEveryColumn ==
    LET mv == summary_stats.missing_values
    IN /\ DOMAIN mv = DOMAIN data.cols
       /\ \A j \in DOMAIN data.cols :
            mv[j] = <<data.cols[j],
                      Cardinality(DOMAIN data.rows) - Cardinality(
                          {i \in DOMAIN data.rows : ~IsNaN(data.rows[i][j])})>>

\* The summary statistics hold value counts for exactly the columns in the
\* set named, each limited to its TopValues most frequent values.
CountsExactlyFor(columns) ==
    LET cat == summary_stats.categorical
    IN /\ {cat[k][1] : k \in DOMAIN cat} = {data.cols[j] : j \in columns}
       /\ Cardinality(columns) = Len(cat)
       /\ \A j \in columns : IsTopValueCounts(CountsOf(data.cols[j]), j)

-----------------------------------------------------------------------------
(* Properties of the load specification: what is held before and during a  *)
(* load                                                                     *)

\* No call of load_data has returned True so far: the processor held no table
\* when the last load began, and that load has not returned True.  (A table,
\* once assigned, is never taken away again.)
NoLoadReturnedTrue ==
    /\ lastLoad.before[1].isNone
    /\ ~(lastLoad.called /\ lastLoad.ok)

\* C26: as long as no load_data has returned True the processor's data is
\* None, and every summary request is answered 404 'Nenhum dado carregado'.
C26_NoTableBeforeFirstSuccessfulLoad ==
    NoLoadReturnedTrue =>
        /\ data.isNone
        /\ reader.pc = "responded" => reader.status = 404

\* Uploads that fail leave the processor without a table: C26 holds of every
\* state in which no load is between read_excel and its return.
NoTableWhileNoLoadIsUnderWay ==
    (NoLoadReturnedTrue /\ loader.pc \in {"idle", "read", "except"}) => data.isNone

\* The metadata held describe table T: its row count, its column count, its
\* column names in order, and one type per column.
MetadataDescribes(T) ==
    /\ metadata.num_rows = Len(T.rows)
    /\ metadata.num_columns = Len(T.cols)
    /\ metadata.columns = T.cols
    /\ "column_types" \in metadata.keys
    /\ DOMAIN metadata.column_types = DOMAIN T.cols
    /\ \A j \in DOMAIN T.cols :
         /\ metadata.column_types[j][1] = T.cols[j]
         /\ metadata.column_types[j][2] \in {"integer", "float", "datetime", "text"}

\* C27: in every reachable state in which a table is held, the metadata
\* describe that table.
C27_MetadataDescribesTableHeld ==
    ~data.isNone => MetadataDescribes(data)

\* While no load is under way the metadata do describe the table held, also
\* after a load that failed.
MetadataDescribesTableWhenIdle ==
    (loader.pc = "idle" /\ ~data.isNone) => MetadataDescribes(data)

-----------------------------------------------------------------------------
(* Properties of the score specification: trip counts and value ranges *)

\* C29: the total_viagens values of all records add up to the number of rows
\* of the table whose driver value is not missing; every driver that is not
\* missing has total_viagens of at least 1, and the record of a missing
\* driver value has total_viagens 0.
C29_TripCountsAddUpToRowsWithDriver ==
    FrameReturned =>
        LET m == result.value.df.val["motorista"]
            tv == result.value.df.val["total_viagens"]
        IN /\ DOMAIN tv = DOMAIN m
           /\ SeriesSum(tv) =
                Num(Cardinality({i \in DOMAIN data.rows : ~IsNaN(DriverCellsOfData[i])}))
           /\ \A k \in DOMAIN m :
                 /\ IsNum(tv[k]) /\ tv[k].d = 1
                 /\ ~IsNaN(m[k]) => tv[k].n >= 1
                 /\ IsNaN(m[k]) => tv[k] = Num(0)

\* Scores of a table with one trip of a driver and one row without a driver.
C29_Witness ==
    /\ FrameReturned
    /\ Len(data.rows) = 2
    /\ \E k \in DOMAIN result.value.df.val["motorista"] :
          /\ IsNaN(result.value.df.val["motorista"][k])
          /\ result.value.df.val["total_viagens"][k] = Num(0)
    /\ \E k \in DOMAIN result.value.df.val["motorista"] :
          /\ ~IsNaN(result.value.df.val["motorista"][k])
          /\ result.value.df.val["total_viagens"][k] = Num(1)

\* Every value of the column is a number from 0 to 100.
WithinScale(values) ==
    \A k \in DOMAIN values :
        /\ IsNum(values[k])
        /\ 0 <= values[k].n
        /\ values[k].n <= 100 * values[k].d

\* Every present cell of the column the patterns find is a number that is
\* not negative.
NonNegativeRole(patterns) ==
    LET role == FindColumnByPattern(data, patterns)
    IN role.found =>
          \A i \in DOMAIN data.rows :
              LET v == data.rows[i][ColIndex(data, role.col)]
              IN IsNaN(v) \/ (IsNum(v) /\ v.n >= 0)

\* C28: for a table with non-negative distance and event values and at least
\* one driver, every normalized column produced and every defined score_geral
\* lies in 0..100, and for every value/max normalized metric with a positive
\* maximum some driver has the value 100.
C28_NormalizedValuesWithinScale ==
    (/\ FrameReturned
     /\ result.value.df.val["motorista"] # << >>
     /\ NonNegativeRole(DistPatterns) /\ NonNegativeRole(EventPatterns)) =>
        LET df == result.value.df
        IN /\ \A c \in {"total_viagens_norm", "distancia_total_norm", "eventos_norm"} :
                 HasCol(df, c) => WithinScale(df.val[c])
           /\ HasCol(df, "score_geral") =>
                 WithinScale(SelectSeq(df.val["score_geral"], LAMBDA v : ~IsNaN(v)))
           /\ \A c \in {"total_viagens", "distancia_total"} :
                 (HasCol(df, c) /\ IsPositive(LargestOf(df.val[c]))) =>
                    /\ HasCol(df, NormName(c))
                    /\ \E k \in DOMAIN df.val[NormName(c)] :
                          df.val[NormName(c)][k] = Num(100)

\* The event totals of the frame returned are all 0 (or the table has rows of
\* no driver only), so that line 264 divides 0 by 0.
EventMaximumIsZero ==
    /\ HasCol(result.value.df, "total_eventos")
    /\ ~IsPositive(LargestOf(result.value.df.val["total_eventos"]))

\* Apart from an event column whose totals are all 0, C28 holds: every
\* normalized value and every defined score lies in 0..100, and the driver
\* with the largest value of a value/max metric has 100.
WithinScaleUnlessEventsAllZero ==
    (FrameReturned /\ ~EventMaximumIsZero) => C28_NormalizedValuesWithinScale

-----------------------------------------------------------------------------
(* The query operations of DataProcessor and the request handlers on them *)

\* GET /api/data/sample returns at most this many rows.
SampleLimit == 100

\* DataFrame.head(n): the first n rows, or all but the last -n rows when n is
\* negative.
HeadRows(rows, n) ==
    IF n >= 0 THEN FirstN(rows, n) ELSE FirstN(rows, Len(rows) + n)

\* The value a query operation returns on a processor whose fields are p (in
\* the order of procVars).  get_metadata and get_summary_stats hand out the
\* dicts themselves.  query_data, which takes a pandas query string, is left
\* out.
QueryValue(p, call) ==
    LET T == p[1]
        a == call.args
    IN CASE call.op = "get_metadata" -> p[3]
         [] call.op = "get_summary_stats" -> p[5]
         [] call.op = "get_column_data" ->
              IF T.isNone \/ a[1] \notin Range(T.cols) THEN << >>
              ELSE Column(T, a[1])
         [] call.op = "get_data_sample" ->
              IF T.isNone THEN [cols |-> << >>, rows |-> << >>]
              ELSE [cols |-> T.cols, rows |-> HeadRows(T.rows, a[1])]
         [] call.op = "calculate_metrics" ->
              CalculateMetricsOf(T, a[1], a[2], a[3])
         [] call.op = "calculate_driver_scores" -> DriverScores(T)
         [] call.op = "_find_column_by_pattern" -> FindColumnByPattern(T, a[1])

\* A processor whose get_data_sample cuts the table itself down to the rows
\* it returns.
QueryCallInPlace(p, call) ==
    [self |-> IF call.op = "get_data_sample" /\ ~p[1].isNone
              THEN [p EXCEPT ![1].rows = HeadRows(@, call.args[1])]
              ELSE p,
     value |-> QueryValue(p, call)]

\* One call of a query operation: the fields of the processor after the call
\* and the value returned.  No operation assigns to a field.
QueryCall(p, call) == [self |-> p, value |-> QueryValue(p, call)]

\* GET /api/data/sample?size=<size>
DataSampleResponse(p, size) ==
    IF p[1].isNone
    THEN [status |-> 404, success |-> FALSE, error |-> "Nenhum dado carregado",
          sample |-> << >>]
    ELSE LET sample_size == IF size > SampleLimit THEN SampleLimit ELSE size
         IN [status |-> 200, success |-> TRUE, error |-> "",
             sample |-> QueryCall(p, [op |-> "get_data_sample",
                                      args |-> <<sample_size>>]).value.rows]

\* ChatEngine.generate_report_data for the report type 'scores' and for a type
\* it does not know; error "" stands for None.  DataFrame.empty holds of a
\* frame without rows or without columns.
GenerateReportData(p, report_type) ==
    IF p[1].isNone
    THEN [error |-> "Nao ha dados carregados", hasData |-> FALSE, data |-> EmptyFrame]
    ELSE IF report_type = "scores"
    THEN LET scores == DriverScores(p[1])
         IN IF scores.kind = "raises"
            THEN [error |-> "Erro ao gerar dados para relatorio",
                  hasData |-> FALSE, data |-> EmptyFrame]
            ELSE IF scores.df.cols = << >> \/ scores.df.val[scores.df.cols[1]] = << >>
            THEN [error |-> "Nao foi possivel calcular scores",
                  hasData |-> FALSE, data |-> EmptyFrame]
            ELSE [error |-> "", hasData |-> TRUE, data |-> scores.df]
    ELSE [error |-> "Tipo de relatorio nao reconhecido",
          hasData |-> FALSE, data |-> EmptyFrame]

\* POST /api/reports/generate with a JSON body (or none) naming the report
\* type and the format; 'rendered' is the data handed to generate_pdf or
\* generate_excel, which write the report file whatever the data are.
GenerateReportResponse(p, hasJson, report_type, format_type) ==
    LET none == [status |-> 400, success |-> FALSE, written |-> FALSE,
                 rendered |-> EmptyFrame]
    IN IF ~hasJson THEN none
       ELSE IF p[1].isNone THEN [none EXCEPT !.status = 404]
       ELSE LET report_data == GenerateReportData(p, report_type)
            IN IF report_data.error # "" THEN [none EXCEPT !.status = 500]
               ELSE IF format_type \in {"pdf", "excel"}
               THEN [status |-> 200, success |-> TRUE, written |-> TRUE,
                     rendered |-> report_data.data]
               ELSE none

-----------------------------------------------------------------------------
(* The query specification: query operations and requests on a processor   *)
(* between two loads                                                        *)

\* The sheets loaded: the trips example, a sheet without a driver column, a
\* header row of a driver column, a driver with text in the event column, and
\* a sheet of cities with more rows than a sample may have.
QueryTables ==
    << ExampleTrips,
       FileEvents,
       FileHeaderOnly,
       Table(<<ColMotorista, ColEventos>>, << <<Str("A"), Str("X")>> >>),
       Table(<<ColCidade>>, Tup([i \in 1..(SampleLimit + 2) |-> <<Str(ToString(i))>>])) >>

\* The fields of a processor that has loaded the sheet uploaded under path,
\* or of one that has loaded nothing.
LoadedState(path) ==
    IF path = NoPath
    THEN <<NoTable, NoPath, EmptyMetadata, << >>, EmptySummary>>
    ELSE LET T == QueryTables[Basename(path)]
         IN <<T, path, FreshMetadata(T, path), ColumnTypes(T), FreshSummary(T)>>

\* A processor after __init__ or after its latest load_data has returned True.
QueryInit ==
    /\ \E path \in {NoPath} \cup {Path(k) : k \in DOMAIN QueryTables} :
          /\ data = LoadedState(path)[1]
          /\ file_path = LoadedState(path)[2]
          /\ metadata = LoadedState(path)[3]
          /\ column_types = LoadedState(path)[4]
          /\ summary_stats = LoadedState(path)[5]
          /\ lastLoad = IF path = NoPath THEN NoLoad
                        ELSE [called |-> TRUE, path |-> path, ok |-> TRUE,
                              before |-> LoadedState(NoPath)]
    /\ loader = LoaderIdle
    /\ reader = ReaderIdle
    /\ result = NoResult

\* A caller invokes a query operation.
Query(call) ==
    /\ LET after == QueryCall(procVars, call)
       IN /\ data' = after.self[1]
          /\ file_path' = after.self[2]
          /\ metadata' = after.self[3]
          /\ column_types' = after.self[4]
          /\ summary_stats' = after.self[5]
          /\ result' = [op |-> "query", call |-> call, value |-> after.value]
    /\ UNCHANGED <<loader, lastLoad, reader>>

\* GET /api/data/sample
GetDataSample(size) ==
    /\ result' = [op |-> "sample", size |-> size,
                  response |-> DataSampleResponse(procVars, size)]
    /\ UNCHANGED <<procVars, loader, lastLoad, reader>>

\* POST /api/reports/generate
GenerateReport(hasJson, report_type, format_type) ==
    /\ result' = [op |-> "report", hasJson |-> hasJson, type |-> report_type,
                  format |-> format_type,
                  response |-> GenerateReportResponse(procVars, hasJson,
                                                      report_type, format_type)]
    /\ UNCHANGED <<procVars, loader, lastLoad, reader>>

QueryNext ==
    \/ \E op \in {"get_metadata", "get_summary_stats", "calculate_driver_scores"} :
          Query([op |-> op, args |-> << >>])
    \/ \E col \in {ColMotorista, ColCidade} :
          Query([op |-> "get_column_data", args |-> <<col>>])
    \/ \E n \in {-1, 1, 5} :
          Query([op |-> "get_data_sample", args |-> <<n>>])
    \/ Query([op |-> "calculate_metrics",
              args |-> <<ColMotorista, ColDistanciaKM, "mean">>])
    \/ \E patterns \in {DriverPatterns, DistPatterns} :
          Query([op |-> "_find_column_by_pattern", args |-> <<patterns>>])
    \/ \E size \in {-2, -1, 0, 1, 2, SampleLimit, SampleLimit + 1} :
          GetDataSample(size)
    \/ \E hasJson \in BOOLEAN, report_type \in {"scores", "mensal"},
          format_type \in {"pdf", "excel", "csv"} :
          GenerateReport(hasJson, report_type, format_type)

QuerySpec == QueryInit /\ [][QueryNext]_vars

-----------------------------------------------------------------------------
(* Properties of the query specification *)

DriverColumnNotFound == DriverScores(data).kind = "error"

\* C25: when calculate_driver_scores yields the 'driver column not found'
\* record, generate_report_data('scores') returns an error with data None,
\* POST /api/reports/generate answers success false, and no report file is
\* rendered from the record.
C25_ErrorRecordFailsTheScoresReport ==
    (/\ result.op = "report"
     /\ result.hasJson /\ result.type = "scores"
     /\ DriverColumnNotFound) =>
        /\ GenerateReportData(procVars, "scores").error # ""
        /\ ~GenerateReportData(procVars, "scores").hasData
        /\ ~result.response.success
        /\ ~result.response.written

\* The other failures of the scores report are reported: without a table,
\* with a scores frame of no rows and when calculate_driver_scores raises,
\* the answer is success false and no file is written.
OtherScoreFailuresFailTheReport ==
    (/\ result.op = "report"
     /\ result.type = "scores"
     /\ DriverScores(data).kind # "error"
     /\ \/ DriverScores(data).kind \in {"empty", "raises"}
        \/ DriverScores(data).df.val["motorista"] = << >>) =>
        /\ ~result.response.success
        /\ ~result.response.written

\* C30: GET /api/data/sample returns at most 100 rows for every integer size
\* and every loaded table, and for a size from 0 to 100 exactly the first
\* min(size, row count) rows in table order.
C30_SampleIsCappedAndAPrefix ==
    (result.op = "sample" /\ ~data.isNone) =>
        /\ Len(result.response.sample) <= SampleLimit
        /\ (0 <= result.size /\ result.size <= SampleLimit) =>
              result.response.sample =
                 SubSeq(data.rows, 1, IF result.size < Len(data.rows)
                                      THEN result.size ELSE Len(data.rows))

\* For every size that is not negative the sample is the first
\* min(size, 100, row count) rows of the table.
SampleOfNonNegativeSizeIsCapped ==
    (result.op = "sample" /\ ~data.isNone /\ result.size >= 0) =>
        LET n == IF result.size > SampleLimit THEN SampleLimit ELSE result.size
        IN result.response.sample =
              SubSeq(data.rows, 1, IF n < Len(data.rows) THEN n ELSE Len(data.rows))


\* What sanitize makes of a scalar: the null marker for NaN and the
\* infinities, the value itself otherwise.
NullMarker == [t |-> "null", n |-> 0, d |-> 1, s |-> ""]
Sanitized(v) == IF IsNaN(v) \/ IsInf(v) THEN NullMarker ELSE v

====
